---- MODULE Spec2Model ----
(***************************************************************************)
(* Coin ledger of the micro-task marketplace: task funding and refund,     *)
(* submission review and payout, withdrawal request and processing, coin   *)
(* purchase.  Every request handler is a process in a slot of req; each    *)
(* database call of a handler is one atomic step, so that handlers         *)
(* interleave exactly where the code awaits the database.                  *)
(***************************************************************************)
EXTENDS Integers, Sequences, FiniteSets, TLC

VARIABLES
    coin,    \* users collection: user -> coin balance
    tasks,   \* tasks collection: task id -> document (live = FALSE once deleted)
    subs,    \* submissions collection: submission id -> document
    wds,     \* withdrawals collection: withdrawal id -> document
    pays,    \* payments collection: payment id -> document
    req,     \* request slot -> the handler running in it and its local variables
    g,       \* history of the ledger (what was debited and credited for what)
    quota    \* requests the servers will still admit

vars == <<coin, tasks, subs, wds, pays, req, g, quota>>

-----------------------------------------------------------------------------
(* Bounds of the model *)

MaxRequests == 5     \* requests admitted in one run
MaxInFlight == 2     \* requests served at the same time
MaxTasks == 2        \* tasks ever created
MaxSubs == 2         \* submissions ever created
MaxWds == 2          \* withdrawals ever created
MaxPays == 2         \* payment records ever created

-----------------------------------------------------------------------------
(* Accounts and request inputs *)

Users == {"b1", "b2", "w1", "w2", "adm"}

role(u) == IF u \in {"b1", "b2"} THEN "Buyer"
           ELSE IF u \in {"w1", "w2"} THEN "Worker" ELSE "Admin"

\* coin set at registration, and the seeded admin's
RegistrationCoin(u) == IF role(u) = "Worker" THEN 10
                       ELSE IF role(u) = "Buyer" THEN 50 ELSE 0

COIN_PACKAGES == <<[id |-> "pkg_10", coins |-> 10, price |-> 1],
                   [id |-> "pkg_150", coins |-> 150, price |-> 10],
                   [id |-> "pkg_500", coins |-> 500, price |-> 20],
                   [id |-> "pkg_1000", coins |-> 1000, price |-> 35]>>

MinWithdrawal == 200
MaxWithdrawal == 10000
MaxReward == 1000
MaxQuantity == 1000

\* the values the requests of the model carry
Rewards == {25, 200}
Quantities == {1, 2}
Amounts == {200}
Deadlines == {"none", "future", "past"}   \* no deadline, one ahead of now, one behind
PackageIds == {"pkg_500", "pkg_0"}
BodyCoins == {9999}        \* a coins field the client adds to the purchase body
TaskCreators == {"b1"}
TaskDeleters == {"b1", "b2", "adm"}
Reviewers == {"b1", "b2", "adm", "w1"}
Submitters == {"w1", "w2"}
Withdrawers == {"b1", "w1"}
Purchasers == {"b1"}
TaskUpdaters == {"b1", "b2"}
\* request bodies of a task update
UpdateBodies == <<[title |-> "edited", reward |-> 1000, quantity |-> 5, completedCount |-> 0,
                   buyer |-> "b2", status |-> "closed"],
                  [reward |-> 1000, quantity |-> 5]>>

Slots == 1..MaxInFlight

Idle == [op |-> "none", pc |-> "idle", caller |-> "none", tgt |-> 0,
         p1 |-> 0, p2 |-> 0, st |-> "none", s1 |-> 0]

Busy(op) == {r \in Slots : req[r].op = op}

\* the lowest free slot takes the next request
FreeSlot(r) == /\ req[r].pc = "idle"
               /\ \A q \in Slots : q < r => req[q].pc # "idle"

\* slot r starts running the handler whose locals are rec
Admit(r, rec) == /\ quota > 0
                 /\ quota' = quota - 1
                 /\ req' = [req EXCEPT ![r] = rec]

\* the request is answered at once, nothing is running for it
Refuse == UNCHANGED <<req, quota>>

\* the handler in slot r has answered
Finish(r) == /\ req' = [req EXCEPT ![r] = Idle]
             /\ UNCHANGED quota

Goto(r, pc) == /\ req' = [req EXCEPT ![r].pc = pc]
               /\ UNCHANGED quota

RECURSIVE SumOver(_, _)
SumOver(S, f) == IF S = {} THEN 0
                 ELSE LET x == CHOOSE y \in S : TRUE
                      IN f[x] + SumOver(S \ {x}, f)

-----------------------------------------------------------------------------
(* Balance store *)

\* filter { coin: { $gte: amount } } of the conditional debit
SufficientUnchecked(c, amount) == TRUE
Sufficient(c, amount) == c >= amount

\* updateOne({ _id, coin: { $gte: amount } }, { $inc: { coin: -amount } })
debitIfSufficient(u, amount) ==
    IF Sufficient(coin[u], amount)
    THEN [coin EXCEPT ![u] = @ - amount]
    ELSE coin

\* updateOne({ _id }, { $inc: { coin: amount } })
creditBalanceTwice(u, amount) == [coin EXCEPT ![u] = @ + 2 * amount]
creditBalance(u, amount) == [coin EXCEPT ![u] = @ + amount]

-----------------------------------------------------------------------------
(* Initial state: the registered accounts, nothing else *)

Init ==
    /\ coin = [u \in Users |-> RegistrationCoin(u)]
    /\ tasks = <<>>
    /\ subs = <<>>
    /\ wds = <<>>
    /\ pays = <<>>
    /\ req = [r \in Slots |-> Idle]
    /\ quota = MaxRequests
    /\ g = [escrow |-> <<>>, debitedForTasks |-> 0, refusedTaskDebits |-> 0,
            refusedWdDebits |-> 0, late |-> <<>>,
            refunded |-> <<>>, paid |-> <<>>, counted |-> <<>>, okApprove |-> <<>>,
            raced |-> <<>>, wdDebits |-> <<>>, purchased |-> 0,
            deletedBy |-> <<>>, duplicateKeys |-> 0,
            denied |-> <<>>, credited |-> <<>>, deleteRefused |-> <<>>,
            tooLate |-> <<>>, processRefused |-> <<>>,
            refunds |-> <<>>, lockedOut |-> <<>>, wdRefunds |-> <<>>]

-----------------------------------------------------------------------------
(* Create task: POST /tasks *)

totalCostSum(reward, quantity) == reward + quantity
totalCost(reward, quantity) == reward * quantity

\* validation, then the fresh read of the buyer and the balance pre-check
CreateTaskStart(r, u, reward, quantity, deadline) ==
    /\ FreeSlot(r)
    /\ role(u) \in {"Buyer", "Admin"}
    /\ Len(tasks) + Cardinality(Busy("createTask")) < MaxTasks
    /\ IF \/ reward <= 0 \/ reward > MaxReward
          \/ quantity <= 0 \/ quantity > MaxQuantity
          \/ deadline = "past"
          \/ coin[u] < totalCost(reward, quantity)
       THEN Refuse
       ELSE Admit(r, [Idle EXCEPT !.op = "createTask", !.pc = "debit",
                                        !.caller = u, !.p1 = reward, !.p2 = quantity,
                                        !.st = deadline])
    /\ UNCHANGED <<coin, tasks, subs, wds, pays, g>>

\* the conditional debit; modifiedCount = 0 ends the request
CreateTaskDebit(r) ==
    /\ req[r].op = "createTask" /\ req[r].pc = "debit"
    /\ LET u == req[r].caller
           cost == totalCost(req[r].p1, req[r].p2)
       IN /\ coin' = debitIfSufficient(u, cost)
          /\ IF coin' # coin
             THEN /\ req' = [req EXCEPT ![r].pc = "insert", ![r].s1 = coin[u] - coin'[u]]
                  /\ g' = [g EXCEPT !.debitedForTasks = @ + 1]
             ELSE /\ req' = [req EXCEPT ![r] = Idle]
                  /\ g' = [g EXCEPT !.refusedTaskDebits = @ + 1]
          /\ UNCHANGED quota
    /\ UNCHANGED <<tasks, subs, wds, pays>>

newTask(u, reward, quantity, deadline) ==
    [buyer |-> u, reward |-> reward, quantity |-> quantity, completedCount |-> 0,
     status |-> "active", title |-> "new", deadline |-> deadline, live |-> TRUE]

\* insertOne(newTask)
CreateTaskInsert(r) ==
    /\ req[r].op = "createTask" /\ req[r].pc = "insert"
    /\ tasks' = Append(tasks, newTask(req[r].caller, req[r].p1, req[r].p2, req[r].st))
    /\ g' = [g EXCEPT !.escrow = Append(@, req[r].s1),
                      !.refunded = Append(@, 0),
                      !.deletedBy = Append(@, "none"),
                      !.deleteRefused = Append(@, FALSE),
                      !.tooLate = Append(@, FALSE),
                      !.refunds = Append(@, 0)]
    /\ Finish(r)
    /\ UNCHANGED <<coin, subs, wds, pays>>

\* insertOne(newTask) throws (storage failure): the handler answers 500, the debit
\* made before stays
CreateTaskInsertFails(r) ==
    /\ req[r].op = "createTask" /\ req[r].pc = "insert"
    /\ Finish(r)
    /\ UNCHANGED <<coin, tasks, subs, wds, pays, g>>

-----------------------------------------------------------------------------
(* Update task: PATCH /tasks/:id *)

\* the fully completed task
completedNever(task) == FALSE
completed(task) == task.completedCount >= task.quantity

\* the fields of the body that are written
allowedUpdatesAny == {"title", "reward", "quantity", "completedCount", "buyer", "status"}
allowedUpdates == {"title", "description", "submissionInfo"}

updates(body) == [f \in DOMAIN body \cap allowedUpdates |-> body[f]]

\* findOne(task), ownership check, completed check, the fields to update
UpdateTaskStart(r, u, t, b) ==
    /\ FreeSlot(r)
    /\ t \in 1..Len(tasks)
    /\ IF \/ ~tasks[t].live
          \/ (tasks[t].buyer # u /\ role(u) # "Admin")
          \/ completed(tasks[t])
          \/ DOMAIN updates(UpdateBodies[b]) = {}
       THEN Refuse
       ELSE Admit(r, [Idle EXCEPT !.op = "updateTask", !.pc = "update",
                                   !.caller = u, !.tgt = t, !.p1 = b])
    /\ UNCHANGED <<coin, tasks, subs, wds, pays, g>>

\* findOneAndUpdate({ _id }, { $set: updates })
UpdateTaskSet(r) ==
    /\ req[r].op = "updateTask" /\ req[r].pc = "update"
    /\ LET t == req[r].tgt
           upd == updates(UpdateBodies[req[r].p1])
       IN tasks' = IF tasks[t].live
                   THEN [tasks EXCEPT ![t] = [f \in DOMAIN @ |->
                                                IF f \in DOMAIN upd THEN upd[f] ELSE @[f]]]
                   ELSE tasks
    /\ Finish(r)
    /\ UNCHANGED <<coin, subs, wds, pays, g>>

-----------------------------------------------------------------------------
(* Delete task: DELETE /tasks/:id *)

remainingSlots(task) == task.quantity - task.completedCount

refundAll(task) == task.quantity * task.reward
refund(task) == remainingSlots(task) * task.reward

\* findOne(task), ownership check, completed check for the non-admin path
DeleteTaskStart(r, u, t) ==
    /\ FreeSlot(r)
    /\ t \in 1..Len(tasks)
    /\ IF \/ ~tasks[t].live
          \/ (tasks[t].buyer # u /\ role(u) # "Admin")
       THEN Refuse /\ UNCHANGED g
       ELSE IF role(u) # "Admin" /\ completed(tasks[t])
       THEN Refuse /\ g' = [g EXCEPT !.deleteRefused[t] = TRUE]
       ELSE /\ UNCHANGED g
            /\ Admit(r, [Idle EXCEPT !.op = "deleteTask", !.caller = u, !.tgt = t,
                                   !.s1 = IF role(u) = "Admin" THEN 0 ELSE refund(tasks[t]),
                                   !.pc = IF role(u) # "Admin" /\ refund(tasks[t]) > 0
                                          THEN "refund" ELSE "deleteTask"])
    /\ UNCHANGED <<coin, tasks, subs, wds, pays>>

\* owner path: refund the remaining slots of the task read at the start
DeleteTaskRefund(r) ==
    /\ req[r].op = "deleteTask" /\ req[r].pc = "refund"
    /\ coin' = creditBalance(tasks[req[r].tgt].buyer, req[r].s1)
    /\ g' = [g EXCEPT !.refunded[req[r].tgt] = @ + req[r].s1,
                      !.refunds[req[r].tgt] = @ + 1]
    /\ Goto(r, "deleteTask")
    /\ UNCHANGED <<tasks, subs, wds, pays>>

\* deleteOne(task)
DeleteTaskDelete(r) ==
    /\ req[r].op = "deleteTask" /\ req[r].pc = "deleteTask"
    /\ tasks' = [tasks EXCEPT ![req[r].tgt].live = FALSE]
    /\ g' = IF tasks[req[r].tgt].live
            THEN [g EXCEPT !.deletedBy[req[r].tgt] = role(req[r].caller)]
            ELSE g
    /\ Goto(r, "deleteSubs")
    /\ UNCHANGED <<coin, subs, wds, pays>>

\* the submissions deleteMany removes: all of them for an admin, the pending ones otherwise
cascadeAll(u, sub) == TRUE
cascade(u, sub) == role(u) = "Admin" \/ sub.status = "pending"

\* deleteMany(submissions of the task)
DeleteTaskSubs(r) ==
    /\ req[r].op = "deleteTask" /\ req[r].pc = "deleteSubs"
    /\ subs' = [s \in DOMAIN subs |->
                  IF subs[s].task = req[r].tgt /\ cascade(req[r].caller, subs[s])
                  THEN [subs[s] EXCEPT !.live = FALSE] ELSE subs[s]]
    /\ Finish(r)
    /\ UNCHANGED <<coin, tasks, wds, pays, g>>

-----------------------------------------------------------------------------
(* Submit: POST /submissions *)

hasOpenSlot(task) == ~(task.completedCount >= task.quantity)

\* findOne({ task, worker })
existingSubmission(t, u) ==
    \E s \in DOMAIN subs : subs[s].live /\ subs[s].task = t /\ subs[s].worker = u

\* task.deadline && new Date(task.deadline) < new Date()
deadlinePassedNever(task) == FALSE
deadlinePassed(task) == task.deadline = "past"

\* findOne(task) and the checks on it
SubmitStart(r, u, t) ==
    /\ FreeSlot(r)
    /\ role(u) = "Worker"
    /\ Len(subs) + Cardinality(Busy("submit")) < MaxSubs
    /\ t \in 1..Len(tasks)
    /\ IF ~tasks[t].live \/ tasks[t].status # "active" \/ ~hasOpenSlot(tasks[t])
       THEN Refuse /\ UNCHANGED g
       ELSE IF deadlinePassed(tasks[t])
       THEN Refuse /\ g' = [g EXCEPT !.tooLate[t] = TRUE]
       ELSE /\ UNCHANGED g
            /\ Admit(r, [Idle EXCEPT !.op = "submit", !.pc = "findExisting",
                                       !.caller = u, !.tgt = t])
    /\ UNCHANGED <<coin, tasks, subs, wds, pays>>

\* time passes: the deadline of task t is now behind
DeadlinePasses(t) ==
    /\ t \in DOMAIN tasks
    /\ tasks[t].live /\ tasks[t].deadline = "future"
    /\ tasks' = [tasks EXCEPT ![t].deadline = "past"]
    /\ UNCHANGED <<coin, subs, wds, pays, req, g, quota>>

SubmitFindExisting(r) ==
    /\ req[r].op = "submit" /\ req[r].pc = "findExisting"
    /\ IF existingSubmission(req[r].tgt, req[r].caller)
       THEN Finish(r)
       ELSE Goto(r, "insert")
    /\ UNCHANGED <<coin, tasks, subs, wds, pays, g>>

newSubmission(t, u) ==
    [task |-> t, worker |-> u, status |-> "pending", rewardPaid |-> 0,
     reviewed |-> FALSE, live |-> TRUE]

\* the unique index { task: 1, worker: 1 } of the submissions collection
duplicateKeyIgnored(t, u) == FALSE
duplicateKey(t, u) ==
    \E s \in DOMAIN subs : subs[s].live /\ subs[s].task = t /\ subs[s].worker = u

\* insertOne(newSubmission); a duplicate key makes it throw and the handler answers 500
SubmitInsert(r) ==
    /\ req[r].op = "submit" /\ req[r].pc = "insert"
    /\ IF duplicateKey(req[r].tgt, req[r].caller)
       THEN /\ UNCHANGED subs
            /\ g' = [g EXCEPT !.duplicateKeys = @ + 1]
       ELSE /\ subs' = Append(subs, newSubmission(req[r].tgt, req[r].caller))
            /\ g' = [g EXCEPT !.paid = Append(@, 0), !.counted = Append(@, 0),
                              !.okApprove = Append(@, 0), !.raced = Append(@, FALSE),
                              !.late = Append(@, FALSE),
                              !.denied = Append(@, FALSE),
                              !.lockedOut = Append(@, FALSE)]
    /\ Finish(r)
    /\ UNCHANGED <<coin, tasks, wds, pays>>

-----------------------------------------------------------------------------
(* Review: PATCH /submissions/:id/review *)

authorizedAnyone(u, task) == TRUE
authorized(u, task) == ~(task.buyer # u /\ role(u) # "Admin")

\* filter { _id, status: "pending" } of the locking findOneAndUpdate
lockableAnyStatus(sub) == sub.live
lockable(sub) == sub.live /\ sub.status = "pending"

\* another approval of the same submission by the task's buyer or an admin is in flight
approvalInFlight(s) ==
    \E q \in Slots : /\ req[q].op = "review" /\ req[q].tgt = s /\ req[q].st = "approved"
                     /\ authorized(req[q].caller, tasks[subs[s].task])

\* the submission is in processing for the review request of a caller who is neither
\* the buyer of its task nor an admin, and who will be answered 403
lockedByUnauthorized(s) ==
    /\ subs[s].live /\ subs[s].status = "processing" /\ tasks[subs[s].task].live
    /\ \E q \in Slots : /\ req[q].op = "review" /\ req[q].tgt = s
                         /\ tasks[subs[s].task].buyer # req[q].caller
                         /\ role(req[q].caller) # "Admin"

\* restrictTo("Buyer", "Admin"), then findOneAndUpdate(pending -> processing,
\* reviewedAt); null ends the request
ReviewStart(r, u, s, status) ==
    /\ FreeSlot(r)
    /\ status \in {"approved", "rejected"}
    /\ s \in 1..Len(subs)
    /\ IF role(u) \notin {"Buyer", "Admin"}
       THEN /\ Refuse
            /\ UNCHANGED <<subs, g>>
       ELSE IF lockable(subs[s])
       THEN /\ subs' = [subs EXCEPT ![s].status = "processing", ![s].reviewed = TRUE]
            /\ Admit(r, [Idle EXCEPT !.op = "review", !.pc = "findTask",
                                      !.caller = u, !.tgt = s, !.st = status])
            /\ UNCHANGED g
       ELSE /\ UNCHANGED subs
            /\ Refuse
            /\ g' = IF /\ status = "approved" /\ approvalInFlight(s)
                       /\ authorized(u, tasks[subs[s].task])
                    THEN [g EXCEPT !.raced[s] = TRUE]
                    ELSE IF subs[s].live /\ subs[s].status = "approved"
                    THEN [g EXCEPT !.late[s] = TRUE]
                    ELSE IF lockedByUnauthorized(s) /\ authorized(u, tasks[subs[s].task])
                    THEN [g EXCEPT !.lockedOut[s] = TRUE]
                    ELSE g
    /\ UNCHANGED <<coin, tasks, wds, pays>>

\* the review runs the payout transaction
paysOutAlways(status) == TRUE
paysOut(status) == status = "approved"

\* findOne(task), then the ownership check
ReviewFindTask(r) ==
    /\ req[r].op = "review" /\ req[r].pc = "findTask"
    /\ LET task == tasks[subs[req[r].tgt].task]
       IN req' = [req EXCEPT ![r].s1 = task.reward,
                             ![r].pc = IF ~task.live \/ ~authorized(req[r].caller, task)
                                       THEN "rollback"
                                       ELSE IF paysOut(req[r].st) THEN "txn"
                                       ELSE "reject"]
    /\ UNCHANGED <<coin, tasks, subs, wds, pays, g, quota>>

\* updateOne({ _id }, { $set: { status: "pending" } }), then 404 or 403
ReviewRollback(r) ==
    /\ req[r].op = "review" /\ req[r].pc = "rollback"
    /\ subs' = IF subs[req[r].tgt].live
               THEN [subs EXCEPT ![req[r].tgt].status = "pending"]
               ELSE subs
    /\ g' = IF tasks[subs[req[r].tgt].task].live
            THEN [g EXCEPT !.denied[req[r].tgt] = TRUE]
            ELSE g
    /\ Finish(r)
    /\ UNCHANGED <<coin, tasks, wds, pays>>

\* what the payout transaction does to the task
countedNot(task) == task
counted(task) == [task EXCEPT !.completedCount = @ + 1]

\* session.withTransaction commits: worker credit, completedCount, submission update
ReviewCommit(r) ==
    /\ req[r].op = "review" /\ req[r].pc = "txn"
    /\ LET s == req[r].tgt
           t == subs[s].task
       IN /\ coin' = creditBalance(subs[s].worker, req[r].s1)
          /\ tasks' = IF tasks[t].live THEN [tasks EXCEPT ![t] = counted(@)] ELSE tasks
          /\ subs' = IF subs[s].live
                     THEN [subs EXCEPT ![s].status = req[r].st,
                                       ![s].rewardPaid = req[r].s1,
                                       ![s].reviewed = TRUE]
                     ELSE subs
          /\ g' = [g EXCEPT !.paid[s] = @ + 1,
                            !.counted[s] = @ + tasks'[t].completedCount
                                             - tasks[t].completedCount,
                            !.okApprove[s] = @ + 1]
    /\ Finish(r)
    /\ UNCHANGED <<wds, pays>>

\* the transaction throws: nothing of it is applied, the handler answers 500
ReviewAbort(r) ==
    /\ req[r].op = "review" /\ req[r].pc = "txn"
    /\ Finish(r)
    /\ UNCHANGED <<coin, tasks, subs, wds, pays, g>>

\* rejected: updateOne({ _id }, { $set: updates })
ReviewReject(r) ==
    /\ req[r].op = "review" /\ req[r].pc = "reject"
    /\ subs' = IF subs[req[r].tgt].live
               THEN [subs EXCEPT ![req[r].tgt].status = "rejected",
                                 ![req[r].tgt].reviewed = TRUE]
               ELSE subs
    /\ Finish(r)
    /\ UNCHANGED <<coin, tasks, wds, pays, g>>

-----------------------------------------------------------------------------
(* Withdrawal request: POST /withdrawals *)

\* findOne({ user, status: "pending" })
existingPendingWithdrawal(u) ==
    \E w \in DOMAIN wds : wds[w].user = u /\ wds[w].status = "pending"

\* validation, the fresh read of the user and the balance check
WithdrawStart(r, u, amount) ==
    /\ FreeSlot(r)
    /\ Len(wds) + Cardinality(Busy("withdraw")) < MaxWds
    /\ IF amount < MinWithdrawal \/ amount > MaxWithdrawal \/ coin[u] < amount
       THEN Refuse
       ELSE Admit(r, [Idle EXCEPT !.op = "withdraw", !.pc = "findPending",
                                        !.caller = u, !.p1 = amount])
    /\ UNCHANGED <<coin, tasks, subs, wds, pays, g>>

WithdrawFindPending(r) ==
    /\ req[r].op = "withdraw" /\ req[r].pc = "findPending"
    /\ IF existingPendingWithdrawal(req[r].caller)
       THEN Finish(r)
       ELSE Goto(r, "insert")
    /\ UNCHANGED <<coin, tasks, subs, wds, pays, g>>

newWithdrawal(u, amount) == [user |-> u, amount |-> amount, status |-> "pending"]

\* coins the request handler takes from the balance: none, the approval does that
deductedAtRequestAmount(amount) == amount
deductedAtRequest(amount) == 0

\* insertOne(newWithdrawal)
WithdrawInsert(r) ==
    /\ req[r].op = "withdraw" /\ req[r].pc = "insert"
    /\ coin' = [coin EXCEPT ![req[r].caller] = @ - deductedAtRequest(req[r].p1)]
    /\ wds' = Append(wds, newWithdrawal(req[r].caller, req[r].p1))
    /\ g' = [g EXCEPT !.wdDebits = Append(@, 0), !.processRefused = Append(@, FALSE),
                      !.wdRefunds = Append(@, 0)]
    /\ Finish(r)
    /\ UNCHANGED <<tasks, subs, pays>>

-----------------------------------------------------------------------------
(* Process withdrawal: PATCH /withdrawals/:id (admin) *)

\* the withdrawal may still be processed
processableAlways(wd) == TRUE
processable(wd) == ~(wd.status # "pending")

\* findOne(withdrawal) and the check that it is still pending
ProcessStart(r, u, w, status) ==
    /\ FreeSlot(r)
    /\ role(u) = "Admin"
    /\ status \in {"approved", "rejected", "completed"}
    /\ w \in 1..Len(wds)
    /\ IF ~processable(wds[w])
       THEN Refuse /\ g' = [g EXCEPT !.processRefused[w] = TRUE]
       ELSE UNCHANGED g /\ Admit(r, [Idle EXCEPT !.op = "process", !.caller = u,
                                        !.tgt = w, !.st = status,
                                        !.pc = IF status = "approved" THEN "debit"
                                               ELSE "cas"])
    /\ UNCHANGED <<coin, tasks, subs, wds, pays>>

\* approved: the conditional debit of the withdrawal amount
ProcessDebit(r) ==
    /\ req[r].op = "process" /\ req[r].pc = "debit"
    /\ LET w == req[r].tgt
       IN /\ coin' = debitIfSufficient(wds[w].user, wds[w].amount)
          /\ IF coin' # coin
             THEN /\ Goto(r, "cas")
                  /\ g' = [g EXCEPT !.wdDebits[w] = @ + 1]
             ELSE /\ Finish(r)
                  /\ g' = [g EXCEPT !.refusedWdDebits = @ + 1]
    /\ UNCHANGED <<tasks, subs, wds, pays>>

\* findOneAndUpdate({ _id, status: "pending" }, { $set: { status } })
ProcessCas(r) ==
    /\ req[r].op = "process" /\ req[r].pc = "cas"
    /\ wds' = IF wds[req[r].tgt].status = "pending"
              THEN [wds EXCEPT ![req[r].tgt].status = req[r].st]
              ELSE wds
    /\ Finish(r)
    /\ UNCHANGED <<coin, tasks, subs, pays, g>>

-----------------------------------------------------------------------------
(* Process withdrawal, the variant with reversal: PATCH /withdrawals/:id of
   src/routes/withdrawals.js *)

\* what the handler does to the balance, from the status asked for and the status read
coinDeduction(status, current) ==
    IF status = "approved" /\ current = "pending" THEN "debit"
    ELSE IF status = "rejected" /\ current = "approved" THEN "refund"
    ELSE "none"

\* validation of the status, then findOne(withdrawal)
ReversalStart(r, u, w, status) ==
    /\ FreeSlot(r)
    /\ role(u) = "Admin"
    /\ IF status \notin {"approved", "rejected", "completed"} \/ w \notin 1..Len(wds)
       THEN Refuse
       ELSE Admit(r, [Idle EXCEPT !.op = "reversal", !.caller = u, !.tgt = w,
                                        !.st = status,
                                        !.pc = IF coinDeduction(status, wds[w].status) = "none"
                                               THEN "set" ELSE "coin",
                                        !.s1 = coinDeduction(status, wds[w].status)])
    /\ UNCHANGED <<coin, tasks, subs, wds, pays, g>>

\* updateOne(user, { $inc: { coin: -amount } }) or updateOne(user, { $inc: { coin: amount } })
ReversalCoin(r) ==
    /\ req[r].op = "reversal" /\ req[r].pc = "coin"
    /\ LET w == req[r].tgt
       IN IF req[r].s1 = "debit"
          THEN /\ coin' = [coin EXCEPT ![wds[w].user] = @ - wds[w].amount]
               /\ g' = [g EXCEPT !.wdDebits[w] = @ + 1]
          ELSE /\ coin' = [coin EXCEPT ![wds[w].user] = @ + wds[w].amount]
               /\ g' = [g EXCEPT !.wdRefunds[w] = @ + 1]
    /\ Goto(r, "set")
    /\ UNCHANGED <<tasks, subs, wds, pays>>

\* findOneAndUpdate({ _id }, { $set: { status } })
ReversalSet(r) ==
    /\ req[r].op = "reversal" /\ req[r].pc = "set"
    /\ wds' = [wds EXCEPT ![req[r].tgt].status = req[r].st]
    /\ Finish(r)
    /\ UNCHANGED <<coin, tasks, subs, pays, g>>

-----------------------------------------------------------------------------
(* Purchase: POST /payments/purchase *)

findPackage(packageId) ==
    {i \in DOMAIN COIN_PACKAGES : COIN_PACKAGES[i].id = packageId}

\* a completed payment of the same user and package created within the last 5 seconds
existingPayment(u, packageId) ==
    \E p \in DOMAIN pays : /\ pays[p].user = u /\ pays[p].packageId = packageId
                           /\ pays[p].status = "completed" /\ pays[p].recent

\* coins of the purchase: those of the package found, whatever else the body holds
grantedCoinsFromBody(packageId, bodyCoins) == bodyCoins
grantedCoins(packageId, bodyCoins) ==
    COIN_PACKAGES[CHOOSE i \in findPackage(packageId) : TRUE].coins

\* validation of the package id, then the read of the user
PurchaseStart(r, u, packageId, bodyCoins) ==
    /\ FreeSlot(r)
    /\ role(u) \in {"Buyer", "Admin"}
    /\ Len(pays) + Cardinality(Busy("purchase")) < MaxPays
    /\ IF findPackage(packageId) = {}
       THEN Refuse
       ELSE Admit(r, [Idle EXCEPT !.op = "purchase", !.pc = "findDup",
                                        !.caller = u, !.st = packageId,
                                        !.p1 = grantedCoins(packageId, bodyCoins),
                                        !.p2 = bodyCoins])
    /\ UNCHANGED <<coin, tasks, subs, wds, pays, g>>

PurchaseFindDup(r) ==
    /\ req[r].op = "purchase" /\ req[r].pc = "findDup"
    /\ IF existingPayment(req[r].caller, req[r].st)
       THEN Finish(r)
       ELSE Goto(r, "insert")
    /\ UNCHANGED <<coin, tasks, subs, wds, pays, g>>

\* insertOne(payment), status completed
PurchaseInsert(r) ==
    /\ req[r].op = "purchase" /\ req[r].pc = "insert"
    /\ pays' = Append(pays, [user |-> req[r].caller, packageId |-> req[r].st,
                             coins |-> req[r].p1, status |-> "completed",
                             recent |-> TRUE])
    /\ g' = [g EXCEPT !.credited = Append(@, FALSE)]
    /\ req' = [req EXCEPT ![r].pc = "credit", ![r].tgt = Len(pays) + 1]
    /\ UNCHANGED <<coin, tasks, subs, wds, quota>>

\* updateOne({ _id }, { $inc: { coin: coinPackage.coins } })
PurchaseCredit(r) ==
    /\ req[r].op = "purchase" /\ req[r].pc = "credit"
    /\ coin' = creditBalance(req[r].caller, req[r].p1)
    /\ g' = [g EXCEPT !.purchased = @ + req[r].p1, !.credited[req[r].tgt] = TRUE]
    /\ Finish(r)
    /\ UNCHANGED <<tasks, subs, wds, pays>>

\* the users update throws (storage failure): the handler answers 500, the payment
\* record inserted before stays as it is
PurchaseCreditFails(r) ==
    /\ req[r].op = "purchase" /\ req[r].pc = "credit"
    /\ Finish(r)
    /\ UNCHANGED <<coin, tasks, subs, wds, pays, g>>

\* five seconds pass: no payment made so far is "within the last 5 seconds" any more
WindowExpires ==
    /\ \E p \in DOMAIN pays : pays[p].recent
    /\ pays' = [p \in DOMAIN pays |-> [pays[p] EXCEPT !.recent = FALSE]]
    /\ UNCHANGED <<coin, tasks, subs, wds, req, g, quota>>

-----------------------------------------------------------------------------
(* The system: any request may arrive at any time, any handler may take its next step *)

Next ==
    \/ \E r \in Slots, u \in TaskCreators, reward \in Rewards, quantity \in Quantities :
          CreateTaskStart(r, u, reward, quantity, "none")
    \/ \E r \in Slots : CreateTaskDebit(r)
    \/ \E r \in Slots : CreateTaskInsert(r)
    \/ \E r \in Slots, u \in TaskUpdaters, t \in 1..MaxTasks,
          b \in DOMAIN UpdateBodies : UpdateTaskStart(r, u, t, b)
    \/ \E r \in Slots : UpdateTaskSet(r)
    \/ \E r \in Slots, u \in TaskDeleters, t \in 1..MaxTasks : DeleteTaskStart(r, u, t)
    \/ \E r \in Slots : DeleteTaskRefund(r)
    \/ \E r \in Slots : DeleteTaskDelete(r)
    \/ \E r \in Slots : DeleteTaskSubs(r)
    \/ \E r \in Slots, u \in Submitters, t \in 1..MaxTasks : SubmitStart(r, u, t)
    \/ \E r \in Slots : SubmitFindExisting(r)
    \/ \E r \in Slots : SubmitInsert(r)
    \/ \E r \in Slots, u \in Reviewers, s \in 1..MaxSubs,
          status \in {"approved", "rejected"} : ReviewStart(r, u, s, status)
    \/ \E r \in Slots : ReviewFindTask(r)
    \/ \E r \in Slots : ReviewRollback(r)
    \/ \E r \in Slots : ReviewCommit(r)
    \/ \E r \in Slots : ReviewAbort(r)
    \/ \E r \in Slots : ReviewReject(r)
    \/ \E r \in Slots, u \in Withdrawers, amount \in Amounts : WithdrawStart(r, u, amount)
    \/ \E r \in Slots : WithdrawFindPending(r)
    \/ \E r \in Slots : WithdrawInsert(r)
    \/ \E r \in Slots, w \in 1..MaxWds,
          status \in {"approved", "rejected", "completed"} :
          ProcessStart(r, "adm", w, status)
    \/ \E r \in Slots : ProcessDebit(r)
    \/ \E r \in Slots : ProcessCas(r)
    \/ \E r \in Slots, u \in Purchasers, packageId \in PackageIds,
          bodyCoins \in BodyCoins : PurchaseStart(r, u, packageId, bodyCoins)
    \/ \E r \in Slots : PurchaseFindDup(r)
    \/ \E r \in Slots : PurchaseInsert(r)
    \/ \E r \in Slots : PurchaseCredit(r)
    \/ \E r \in Slots : PurchaseCreditFails(r)
    \/ WindowExpires

Spec == Init /\ [][Next]_vars

\* two approvals racing for one submission, nothing else going wrong: tasks are created
\* and submitted to, submissions are reviewed, every payout transaction commits
NextReviewRace ==
    \/ \E r \in Slots, u \in TaskCreators, reward \in Rewards, quantity \in Quantities :
          CreateTaskStart(r, u, reward, quantity, "none")
    \/ \E r \in Slots : CreateTaskDebit(r)
    \/ \E r \in Slots : CreateTaskInsert(r)
    \/ \E r \in Slots, u \in Submitters, t \in 1..MaxTasks : SubmitStart(r, u, t)
    \/ \E r \in Slots : SubmitFindExisting(r)
    \/ \E r \in Slots : SubmitInsert(r)
    \/ \E r \in Slots, u \in Reviewers, s \in 1..MaxSubs,
          status \in {"approved", "rejected"} : ReviewStart(r, u, s, status)
    \/ \E r \in Slots : ReviewFindTask(r)
    \/ \E r \in Slots : ReviewRollback(r)
    \/ \E r \in Slots : ReviewCommit(r)
    \/ \E r \in Slots : ReviewReject(r)

SpecReviewRace == Init /\ [][NextReviewRace]_vars

\* tasks with deadlines: they are created with or without one, time passes, workers
\* submit, submissions are reviewed and tasks deleted.  (Next creates its tasks without
\* a deadline: a deadline only makes submit requests fail, which are steps that
\* change nothing.)
NextDeadline ==
    \/ \E r \in Slots, u \in TaskCreators, reward \in Rewards, quantity \in Quantities,
          deadline \in Deadlines : CreateTaskStart(r, u, reward, quantity, deadline)
    \/ \E r \in Slots : CreateTaskDebit(r)
    \/ \E r \in Slots : CreateTaskInsert(r)
    \/ \E t \in 1..MaxTasks : DeadlinePasses(t)
    \/ \E r \in Slots, u \in TaskDeleters, t \in 1..MaxTasks : DeleteTaskStart(r, u, t)
    \/ \E r \in Slots : DeleteTaskRefund(r)
    \/ \E r \in Slots : DeleteTaskDelete(r)
    \/ \E r \in Slots : DeleteTaskSubs(r)
    \/ \E r \in Slots, u \in Submitters, t \in 1..MaxTasks : SubmitStart(r, u, t)
    \/ \E r \in Slots : SubmitFindExisting(r)
    \/ \E r \in Slots : SubmitInsert(r)
    \/ \E r \in Slots, u \in Reviewers, s \in 1..MaxSubs,
          status \in {"approved", "rejected"} : ReviewStart(r, u, s, status)
    \/ \E r \in Slots : ReviewFindTask(r)
    \/ \E r \in Slots : ReviewRollback(r)
    \/ \E r \in Slots : ReviewCommit(r)
    \/ \E r \in Slots : ReviewAbort(r)
    \/ \E r \in Slots : ReviewReject(r)

SpecDeadline == Init /\ [][NextDeadline]_vars

\* the system with a storage that may also fail the insertion of a task
NextInsertFailure ==
    \/ Next
    \/ \E r \in Slots : CreateTaskInsertFails(r)

SpecInsertFailure == Init /\ [][NextInsertFailure]_vars

\* the requests arrive one after the other: each is answered before the next arrives
NextSerial == Next /\ \A r \in Slots : r > 1 => req'[r].pc = "idle"

SpecSerial == Init /\ [][NextSerial]_vars

\* the variant with reversal: purchases, withdrawal requests and the admin's process
\* requests, each answered before the next arrives
NextReversalRequests ==
    \/ \E r \in Slots, u \in Withdrawers, amount \in Amounts : WithdrawStart(r, u, amount)
    \/ \E r \in Slots : WithdrawFindPending(r)
    \/ \E r \in Slots : WithdrawInsert(r)
    \/ \E r \in Slots, w \in 1..MaxWds,
          status \in {"approved", "rejected", "completed", "pending"} :
          ReversalStart(r, "adm", w, status)
    \/ \E r \in Slots : ReversalCoin(r)
    \/ \E r \in Slots : ReversalSet(r)
    \/ \E r \in Slots, u \in Purchasers, packageId \in PackageIds,
          bodyCoins \in BodyCoins : PurchaseStart(r, u, packageId, bodyCoins)
    \/ \E r \in Slots : PurchaseFindDup(r)
    \/ \E r \in Slots : PurchaseInsert(r)
    \/ \E r \in Slots : PurchaseCredit(r)

NextReversal == NextReversalRequests /\ \A r \in Slots : r > 1 => req'[r].pc = "idle"

SpecReversal == Init /\ [][NextReversal]_vars

-----------------------------------------------------------------------------
(* Quantities the properties are stated with *)

Quiescent == \A r \in Slots : req[r].pc = "idle"

LiveTasks == {t \in DOMAIN tasks : tasks[t].live}

\* coins a task still holds for its open slots
escrowOf == [t \in DOMAIN tasks |->
               tasks[t].reward * (tasks[t].quantity - tasks[t].completedCount)]

\* all balances plus the escrow of the existing tasks
Total == SumOver(Users, coin) + SumOver(LiveTasks, escrowOf)

InitialTotal == SumOver(Users, [u \in Users |-> RegistrationCoin(u)])

\* payouts made for the submissions of task t
paidFor(t) == SumOver({s \in DOMAIN subs : subs[s].task = t}, g.paid)

reviewing(s) == {r \in Slots : req[r].op = "review" /\ req[r].tgt = s}

-----------------------------------------------------------------------------
(* C1: in every reachable state every account's coin balance is >= 0 *)

C1_NonNegativeBalance == \A u \in Users : coin[u] >= 0

\* a conditional debit was refused at the update itself, with the balance spent to zero
C1_Witness ==
    g.refusedTaskDebits + g.refusedWdDebits >= 1 /\ \E u \in Users : coin[u] = 0

(* C2: no step other than a purchase credit increases the total of balances and
   escrow.  Stated on the states with no request in flight, where no handler is
   between two of its updates: there the total is at most the initial total plus
   the coins purchased. *)
C2_NoCoinCreated == Quiescent => Total <= InitialTotal + g.purchased

(* C3: for every task 0 <= completedCount <= quantity *)
C3_CompletedWithinQuantity ==
    \A t \in LiveTasks : /\ 0 <= tasks[t].completedCount
                         /\ tasks[t].completedCount <= tasks[t].quantity

(* C4: of two approvals by the task's buyer or an admin that run concurrently on the
   same pending submission exactly one succeeds: once both have answered, one
   approval has succeeded, and never more than one *)
C4_OneApprovalWins ==
    \A s \in DOMAIN subs :
        /\ g.okApprove[s] <= 1
        /\ (g.raced[s] /\ reviewing(s) = {}) => g.okApprove[s] = 1

\* both approvals have answered, one of them after losing the race for the lock
C4_Witness ==
    \E s \in DOMAIN subs : g.raced[s] /\ reviewing(s) = {} /\ g.okApprove[s] = 1

(* C5: for any submission the worker is credited at most once and completedCount is
   incremented at most once, and no step pays or counts an approved submission again *)
C5_PaidOnce ==
    /\ [](\A s \in DOMAIN subs : g.paid[s] <= 1 /\ g.counted[s] <= 1)
    /\ [][\A s \in DOMAIN subs :
             subs[s].status = "approved" =>
                /\ subs'[s].status = "approved"
                /\ subs'[s].rewardPaid = subs[s].rewardPaid
                /\ g'.paid[s] = g.paid[s]
                /\ g'.counted[s] = g.counted[s]
                /\ coin'[subs[s].worker] >= coin[subs[s].worker]]_vars

\* a second approval arrived for a submission that is already approved and paid
C5_Witness ==
    \E s \in DOMAIN subs : subs[s].status = "approved" /\ g.paid[s] = 1 /\ g.late[s]

(* C6: the three effects of an approval are applied together or not at all: an
   existing submission is approved with rewardPaid set exactly when its worker has
   been paid for it, and an existing task's completedCount is the number of payouts
   made for its submissions *)
C6_ApprovalAtomic ==
    /\ \A s \in DOMAIN subs :
          subs[s].live =>
             /\ (subs[s].status = "approved") = (g.paid[s] = 1)
             /\ subs[s].rewardPaid =
                   IF subs[s].status = "approved" THEN tasks[subs[s].task].reward ELSE 0
    /\ \A t \in LiveTasks : tasks[t].completedCount = paidFor(t)

\* one approval has been applied and another one was interrupted by a failure
C6_Witness ==
    \E s1, s2 \in DOMAIN subs :
        /\ subs[s1].live /\ subs[s1].status = "approved" /\ g.paid[s1] = 1
        /\ tasks[subs[s1].task].live /\ tasks[subs[s1].task].completedCount = 1
        /\ subs[s2].live /\ subs[s2].status = "processing" /\ reviewing(s2) = {}
        /\ g.paid[s2] = 0

(* C7: of two concurrent approvals of one pending withdrawal at most one succeeds
   and the balance is debited by the amount at most once *)
C7_DebitedOnce == \A w \in DOMAIN wds : g.wdDebits[w] <= 1

(* C8: a withdrawal whose status ends as rejected has caused no net change of the
   user's balance *)
C8_RejectedNotDebited ==
    \A w \in DOMAIN wds :
        (wds[w].status = "rejected" /\ Busy("process") = {}) => g.wdDebits[w] = 0

(* C9: each user has at most one withdrawal with status pending *)
C9_OnePending ==
    \A v, w \in DOMAIN wds :
        (wds[v].user = wds[w].user /\ wds[v].status = "pending"
           /\ wds[w].status = "pending") => v = w

(* C10: task creation debits the buyer exactly reward x quantity and creates an
   active task with completedCount 0; a conditional debit that finds less than
   reward x quantity fails the request, creates no task and leaves the balance;
   every task corresponds to exactly one such debit *)
C10_CreateDebitsExactly ==
    /\ [](/\ \A t \in DOMAIN tasks : g.escrow[t] = tasks[t].reward * tasks[t].quantity
          /\ g.debitedForTasks =
                Len(tasks) + Cardinality({r \in Busy("createTask") : req[r].pc = "insert"}))
    /\ [][\A r \in Slots :
            /\ (req[r].op = "createTask" /\ req[r].pc = "debit" /\ req'[r] # req[r]) =>
                  LET u == req[r].caller
                      cost == req[r].p1 * req[r].p2
                  IN IF coin[u] >= cost
                     THEN /\ coin' = [coin EXCEPT ![u] = @ - cost]
                          /\ req'[r].pc = "insert" /\ tasks' = tasks
                     ELSE coin' = coin /\ tasks' = tasks /\ req'[r] = Idle
            /\ (req[r].op = "createTask" /\ req[r].pc = "insert" /\ req'[r] # req[r]) =>
                  /\ coin' = coin
                  /\ tasks' = Append(tasks, [buyer |-> req[r].caller, reward |-> req[r].p1,
                                             quantity |-> req[r].p2, completedCount |-> 0,
                                             status |-> "active", title |-> "new",
                                             deadline |-> req[r].st, live |-> TRUE])]_vars

\* a task was funded while a concurrent request lost its conditional debit
C10_Witness ==
    Len(tasks) >= 1 /\ g.refusedTaskDebits >= 1 /\ g.debitedForTasks = Len(tasks)

(* C11: an owner's deletion of a task with completedCount < quantity credits the
   buyer exactly (quantity - completedCount) x reward and removes the task: the
   refund read, the credit and the removal are those steps, and with the requests
   served one after the other a task created and then deleted by its owner with k
   approvals in between has cost the buyer exactly k x reward *)
C11_DeleteRefundsRemaining ==
    /\ [](\A t \in DOMAIN tasks :
            (g.deletedBy[t] = "Buyer" /\ Quiescent) =>
               /\ ~tasks[t].live
               /\ g.refunded[t] = (tasks[t].quantity - tasks[t].completedCount)
                                     * tasks[t].reward
               /\ g.escrow[t] - g.refunded[t] = paidFor(t) * tasks[t].reward)
    /\ [][\A r \in Slots :
            (req[r].op = "deleteTask" /\ req[r].pc = "refund" /\ req'[r] # req[r]) =>
                LET task == tasks[req[r].tgt]
                IN /\ task.completedCount < task.quantity
                   /\ coin' = [coin EXCEPT ![task.buyer] =
                                  @ + (task.quantity - task.completedCount) * task.reward]
                   /\ req'[r].pc = "deleteTask"]_vars

\* a task with one approval paid was deleted by its owner, who got the open slot back
C11_Witness ==
    \E t \in DOMAIN tasks :
        /\ g.deletedBy[t] = "Buyer" /\ Quiescent /\ ~tasks[t].live
        /\ tasks[t].completedCount = 1 /\ g.refunded[t] = tasks[t].reward

(* C12: a withdrawal request never changes a balance: no step of the request
   handler does, and the step that accepts the request leaves every balance as it
   was and adds a pending withdrawal of the requested amount *)
C12_RequestKeepsBalance ==
    [][\A r \in Slots :
         ((req[r].op = "withdraw" \/ req'[r].op = "withdraw") /\ req'[r] # req[r]) =>
             /\ coin' = coin
             /\ (req[r].pc = "insert") =>
                   /\ Len(wds') = Len(wds) + 1
                   /\ wds'[Len(wds')] = [user |-> req[r].caller, amount |-> req[r].p1,
                                         status |-> "pending"]
                   /\ \A w \in DOMAIN wds : wds'[w] = wds[w]]_vars

\* a request was accepted: the withdrawal is pending and the balance still holds the amount
C12_Witness ==
    \E w \in DOMAIN wds :
        /\ wds[w].status = "pending" /\ g.wdDebits[w] = 0 /\ Busy("withdraw") = {}
        /\ coin[wds[w].user] = RegistrationCoin(wds[w].user) + g.purchased

(* C13: an approval that finds the user's balance below the withdrawal amount
   fails: the balance is unchanged, the withdrawal keeps its status (pending, so a
   later request can approve or reject it) and the request ends there *)
C13_InsufficientApprovalFails ==
    [][\A r \in Slots :
         (/\ req[r].op = "process" /\ req[r].pc = "debit" /\ req'[r] # req[r]
          /\ coin[wds[req[r].tgt].user] < wds[req[r].tgt].amount) =>
             /\ coin' = coin
             /\ wds' = wds
             /\ req'[r] = Idle]_vars

\* an approval failed on the balance and left the withdrawal pending
C13_Witness ==
    /\ g.refusedWdDebits >= 1
    /\ \E w \in DOMAIN wds : /\ wds[w].status = "pending" /\ g.wdDebits[w] = 0
                               /\ coin[wds[w].user] < wds[w].amount
                               /\ Busy("process") = {}

(* C14: the step that rejects a submission increments the quantity of its task by
   exactly 1 *)
C14_RejectReopensSlot ==
    [][\A s \in DOMAIN subs :
         (subs[s].status # "rejected" /\ subs'[s].status = "rejected") =>
             tasks'[subs[s].task].quantity = tasks[subs[s].task].quantity + 1]_vars

(* C15: the submissions collection never holds two submissions of the same worker
   for the same task, however the submit requests interleave *)
C15_OneSubmissionPerWorker ==
    \A s1, s2 \in DOMAIN subs :
        (/\ subs[s1].live /\ subs[s2].live
         /\ subs[s1].task = subs[s2].task
         /\ subs[s1].worker = subs[s2].worker) => s1 = s2

\* two submits of one worker ran concurrently: both passed the findOne, the insert of
\* the second was refused by the index
C15_Witness ==
    /\ g.duplicateKeys >= 1
    /\ \E s \in DOMAIN subs : subs[s].live

(* C16: the status of a withdrawal only changes from pending to approved, from
   approved to completed, or from pending to rejected; completed is entered from
   approved only, rejected and completed are left by no step *)
C16_WithdrawalTransitions ==
    [][\A w \in DOMAIN wds :
         wds'[w].status # wds[w].status =>
             <<wds[w].status, wds'[w].status>> \in
                 {<<"pending", "approved">>, <<"approved", "completed">>,
                  <<"pending", "rejected">>}]_vars

(* C17: every withdrawal with status completed has been debited from the user's
   balance exactly once, by an approval *)
C17_CompletedWasDebited ==
    \A w \in DOMAIN wds : wds[w].status = "completed" => g.wdDebits[w] = 1

(* C18: a review request of a buyer who does not own the task changes no field
   of the submission at any of its steps (the status stays pending, reviewedAt
   keeps its value), and changes no balance and no task *)
C18_UnauthorizedReviewChangesNothing ==
    [][\A r \in Slots :
         LET q == IF req[r].op = "review" THEN req[r] ELSE req'[r]
         IN (/\ q.op = "review" /\ req'[r] # req[r]
             /\ role(q.caller) = "Buyer"
             /\ tasks[subs[q.tgt].task].live
             /\ tasks[subs[q.tgt].task].buyer # q.caller) =>
                /\ subs'[q.tgt] = subs[q.tgt]
                /\ coin' = coin
                /\ tasks' = tasks]_vars

(* C19: a submission becomes approved or rejected, and a payout is made for it, only
   in a step of a review request whose caller is the buyer of the submission's task
   or an admin; no request of a worker or of another buyer does it *)
C19_OnlyOwnerOrAdminReviews ==
    [][\A s \in DOMAIN subs :
         (\/ (subs'[s].status # subs[s].status
                 /\ subs'[s].status \in {"approved", "rejected"})
          \/ g'.paid[s] # g.paid[s]
          \/ subs'[s].rewardPaid # subs[s].rewardPaid) =>
             \E r \in Slots :
                 /\ req[r].op = "review" /\ req[r].tgt = s /\ req'[r] = Idle
                 /\ \/ role(req[r].caller) = "Admin"
                    \/ /\ role(req[r].caller) = "Buyer"
                       /\ tasks[subs[s].task].buyer = req[r].caller]_vars

\* another buyer's review was refused with 403, the owner's approval then paid the worker
C19_Witness ==
    \E s \in DOMAIN subs :
        g.denied[s] /\ subs[s].status = "approved" /\ g.paid[s] = 1

(* C20: of the purchases of one package by one user made within the 5 second
   window at most one credits coins, also when the requests run concurrently *)
C20_OneCreditPerWindow ==
    \A p, q \in DOMAIN pays :
        (/\ pays[p].user = pays[q].user /\ pays[p].packageId = pays[q].packageId
         /\ pays[p].recent /\ pays[q].recent
         /\ g.credited[p] /\ g.credited[q]) => p = q

(* C21: coins are granted exactly once per completed payment record: with no
   purchase request in flight, each user's total purchase credit is the sum of the
   coins of that user's completed payment records, also after a failure of the
   balance update that follows the insertion of the record *)
C21_GrantPerCompletedPayment ==
    (Busy("purchase") = {}) =>
        \A u \in Users :
            SumOver({p \in DOMAIN pays : pays[p].user = u /\ g.credited[p]},
                    [p \in DOMAIN pays |-> pays[p].coins])
              = SumOver({p \in DOMAIN pays : pays[p].user = u
                                               /\ pays[p].status = "completed"},
                        [p \in DOMAIN pays |-> pays[p].coins])

(* C22: a purchase credits the user exactly the coins the fixed price list gives
   for the requested package id, whatever else the request carries; a request
   whose package id is not in the list starts no purchase, so every payment record
   is for a package of the list, with that package's coins *)
C22_CreditFromPriceList ==
    /\ [](/\ \A p \in DOMAIN pays :
                \E i \in DOMAIN COIN_PACKAGES :
                    /\ COIN_PACKAGES[i].id = pays[p].packageId
                    /\ COIN_PACKAGES[i].coins = pays[p].coins
          /\ \A r \in Busy("purchase") :
                \E i \in DOMAIN COIN_PACKAGES : COIN_PACKAGES[i].id = req[r].st)
    /\ [][\A r \in Slots :
            (req[r].op = "purchase" /\ req'[r] # req[r]) =>
                IF req[r].pc = "credit" /\ g'.purchased # g.purchased
                THEN \E i \in DOMAIN COIN_PACKAGES :
                        /\ COIN_PACKAGES[i].id = req[r].st
                        /\ coin' = [coin EXCEPT ![req[r].caller] =
                                       @ + COIN_PACKAGES[i].coins]
                ELSE coin' = coin]_vars

\* pkg_500 was bought with another coins value in the body: 500 coins were credited
C22_Witness ==
    \E p \in DOMAIN pays :
        /\ g.credited[p] /\ pays[p].packageId = "pkg_500"
        /\ coin[pays[p].user] = RegistrationCoin(pays[p].user) + 500
        /\ 500 \notin BodyCoins

C24_CompletedTaskNotDeletedByOwner ==
    [][/\ \A r \in Slots :
            (/\ req[r].op # "deleteTask" /\ req'[r].op = "deleteTask"
             /\ role(req'[r].caller) # "Admin") =>
                tasks[req'[r].tgt].completedCount < tasks[req'[r].tgt].quantity
       /\ \A t \in DOMAIN tasks :
            (g'.deleteRefused[t] /\ ~g.deleteRefused[t]) =>
                /\ tasks[t].completedCount >= tasks[t].quantity
                /\ tasks' = tasks /\ subs' = subs /\ coin' = coin /\ req' = req]_vars

\* the owner's delete of a fully completed task was rejected, the task is still there
C24_Witness ==
    \E t \in DOMAIN tasks :
        /\ g.deleteRefused[t] /\ tasks[t].live /\ g.refunded[t] = 0
        /\ tasks[t].completedCount = tasks[t].quantity

(* C25: a delete request of an admin removes the task and all of its submissions,
   whatever their status, and none of its steps changes a balance (no refund,
   whatever completedCount is); only an admin's request does this: a delete request
   of anyone else removes no submission that is not pending *)
C25_AdminDeleteNoRefund ==
    [][\A r \in Slots :
         (req[r].op = "deleteTask" /\ req'[r] # req[r]) =>
             LET t == req[r].tgt
             IN IF role(req[r].caller) = "Admin"
                THEN /\ coin' = coin
                     /\ req[r].pc \in {"deleteTask", "deleteSubs"}
                     /\ req[r].pc = "deleteTask" => ~tasks'[t].live
                     /\ req[r].pc = "deleteSubs" =>
                           \A s \in DOMAIN subs : subs[s].task = t => ~subs'[s].live
                ELSE \A s \in DOMAIN subs :
                        (subs[s].live /\ subs[s].status # "pending") => subs'[s].live]_vars

\* an admin deleted a task with an approved submission and an open slot: the
\* submission is gone and the buyer got nothing back
C25_Witness ==
    \E t \in DOMAIN tasks :
        /\ g.deletedBy[t] = "Admin" /\ Quiescent /\ ~tasks[t].live
        /\ tasks[t].completedCount < tasks[t].quantity
        /\ g.refunded[t] = 0
        /\ \E s \in DOMAIN subs :
              subs[s].task = t /\ subs[s].status = "approved" /\ ~subs[s].live

(* C26: no step of a task update changes the reward, quantity, completedCount,
   buyer or status of any task (nor removes one, nor touches a balance), whatever
   fields the body holds, and no update is taken up for a task that is read with
   completedCount >= quantity *)
C26_UpdateKeepsFinancialFields ==
    [][\A r \in Slots :
         /\ (req[r].op # "updateTask" /\ req'[r].op = "updateTask") =>
                /\ tasks[req'[r].tgt].completedCount < tasks[req'[r].tgt].quantity
                /\ tasks' = tasks
         /\ (req[r].op = "updateTask" /\ req'[r] # req[r]) =>
                /\ coin' = coin
                /\ Len(tasks') = Len(tasks)
                /\ \A t \in DOMAIN tasks :
                      /\ tasks'[t].reward = tasks[t].reward
                      /\ tasks'[t].quantity = tasks[t].quantity
                      /\ tasks'[t].completedCount = tasks[t].completedCount
                      /\ tasks'[t].buyer = tasks[t].buyer
                      /\ tasks'[t].status = tasks[t].status
                      /\ tasks'[t].live = tasks[t].live]_vars

\* an update whose body also named reward, quantity, completedCount, buyer and status was
\* applied: the title is the new one, the task still has what it was created with
C26_Witness ==
    \E t \in DOMAIN tasks :
        /\ tasks[t].live /\ tasks[t].title = "edited"
        /\ tasks[t].reward \in Rewards /\ tasks[t].quantity \in Quantities
        /\ tasks[t].buyer \in TaskCreators /\ tasks[t].status = "active"
        /\ g.escrow[t] = tasks[t].reward * tasks[t].quantity

\* coins taken from the balances by withdrawal approvals
withdrawn == SumOver(DOMAIN wds, [w \in DOMAIN wds |-> g.wdDebits[w] * wds[w].amount])

(* C27: with total = all balances + reward x (quantity - completedCount) of the
   existing tasks, nothing but a withdrawal approval decreases the total: task
   creation, task deletion by owner or admin, review and purchase destroy no coin.
   Stated on the states with no request in flight: there the total is at least the
   initial total plus the coins purchased minus the coins withdrawn *)
C27_NoCoinDestroyed == Quiescent => Total >= InitialTotal + g.purchased - withdrawn

(* C28: the step that approves a submission of a task with reward R adds exactly R
   to the balance of the submission's worker and changes no other balance; the
   buyer is not debited again *)
C28_ApprovalCreditsWorkerOnly ==
    [][\A s \in DOMAIN subs :
         (g'.paid[s] # g.paid[s] \/ (subs[s].status # "approved"
                                        /\ subs'[s].status = "approved")) =>
             coin' = [coin EXCEPT ![subs[s].worker] = @ + tasks[subs[s].task].reward]]_vars

\* one approval was made: the worker has the reward on top of the registration coins,
\* the buyer has paid the escrow of the task and nothing more
C28_Witness ==
    \E s \in DOMAIN subs :
        LET t == subs[s].task
        IN /\ subs[s].live /\ subs[s].status = "approved" /\ Quiescent
           /\ coin[subs[s].worker] = RegistrationCoin(subs[s].worker) + tasks[t].reward
           /\ Len(tasks) = 1 /\ g.purchased = 0
           /\ coin[tasks[t].buyer] = RegistrationCoin(tasks[t].buyer) - g.escrow[t]

(* C29: no step of a review with status rejected changes an account balance or
   the completedCount of a task; in particular the step that makes the submission
   rejected does not *)
C29_RejectionKeepsLedger ==
    [][/\ \A r \in Slots :
            LET q == IF req[r].op = "review" THEN req[r] ELSE req'[r]
            IN (q.op = "review" /\ q.st = "rejected" /\ req'[r] # req[r]) =>
                  /\ coin' = coin
                  /\ \A t \in DOMAIN tasks :
                        tasks'[t].completedCount = tasks[t].completedCount
       /\ \A s \in DOMAIN subs :
            (subs[s].status # "rejected" /\ subs'[s].status = "rejected") =>
                  /\ coin' = coin
                  /\ \A t \in DOMAIN tasks :
                        tasks'[t].completedCount = tasks[t].completedCount
                  /\ subs'[s].rewardPaid = 0]_vars

\* a submission was rejected: its worker has the registration coins, the task counts
\* no completion
C29_Witness ==
    \E s \in DOMAIN subs :
        /\ subs[s].live /\ subs[s].status = "rejected" /\ Quiescent
        /\ g.paid[s] = 0 /\ ~g.denied[s]
        /\ coin[subs[s].worker] = RegistrationCoin(subs[s].worker)
        /\ tasks[subs[s].task].live /\ tasks[subs[s].task].completedCount = 0

(* C30: a submit request creates a submission only if the task exists, is active,
   has completedCount < quantity and a deadline that has not passed, and the worker
   has no submission for the task yet: a request is taken up only when it reads
   such a task, goes on to the insertion only when it finds no submission of the
   worker, and a record is created by the insertion of such a request only, as a
   new pending submission of a (task, worker) that has none; every other request
   ends without a record *)
C30_SubmitOnlyWhenValid ==
    [][/\ \A r \in Slots :
            /\ (req[r].op # "submit" /\ req'[r].op = "submit") =>
                  LET task == tasks[req'[r].tgt]
                  IN /\ task.live /\ task.status = "active"
                     /\ task.completedCount < task.quantity
                     /\ task.deadline # "past"
                     /\ req'[r].pc = "findExisting" /\ subs' = subs
            /\ (req[r].op = "submit" /\ req[r].pc = "findExisting"
                                     /\ req'[r] # req[r]) =>
                  /\ subs' = subs
                  /\ req'[r].pc = "insert" =>
                        ~\E s \in DOMAIN subs : /\ subs[s].live
                                                /\ subs[s].task = req[r].tgt
                                                /\ subs[s].worker = req[r].caller
       /\ Len(subs') # Len(subs) =>
            \E r \in Slots :
                /\ req[r].op = "submit" /\ req[r].pc = "insert" /\ req'[r] = Idle
                /\ subs' = Append(subs, [task |-> req[r].tgt, worker |-> req[r].caller,
                                         status |-> "pending", rewardPaid |-> 0,
                                         reviewed |-> FALSE, live |-> TRUE])
                /\ ~\E s \in DOMAIN subs : /\ subs[s].live
                                            /\ subs[s].task = req[r].tgt
                                            /\ subs[s].worker = req[r].caller]_vars

\* a worker submitted to a task before its deadline; a submit that came after the
\* deadline was rejected and left no record
C30_Witness ==
    \E t \in DOMAIN tasks :
        /\ g.tooLate[t] /\ tasks[t].live /\ tasks[t].deadline = "past"
        /\ Busy("submit") = {}
        /\ Cardinality({s \in DOMAIN subs : subs[s].task = t /\ subs[s].live}) = 1

(* C31: a submission locked into processing leaves processing again, also when a
   storage step of the review fails; none stays in processing forever.  A
   submission is in processing for good once no review request holds it, since only
   the request that locked it writes its status: so every existing submission in
   processing is held by a review request in flight *)
C31_ProcessingIsHeld ==
    \A s \in DOMAIN subs :
        (subs[s].live /\ subs[s].status = "processing") => reviewing(s) # {}

(* C32: task creation is all or nothing: with no create request in flight every
   debit made for a create request has its task, also after a failure of the
   insertion that follows the debit (the debit is then reverted) *)
C32_CreateAllOrNothing ==
    (Busy("createTask") = {}) => g.debitedForTasks = Len(tasks)

(* C33: a process request (approved, rejected or completed) that finds the
   withdrawal with a status other than pending is rejected: no such request is
   taken up, the rejecting step changes no withdrawal and no balance, and no step
   at all changes a withdrawal record that is not pending *)
C33_ProcessedNotProcessedAgain ==
    [][/\ \A r \in Slots :
            (req[r].op # "process" /\ req'[r].op = "process") =>
                wds[req'[r].tgt].status = "pending" /\ wds' = wds /\ coin' = coin
       /\ \A w \in DOMAIN wds :
            /\ (g'.processRefused[w] /\ ~g.processRefused[w]) =>
                  /\ wds[w].status # "pending"
                  /\ wds' = wds /\ coin' = coin /\ req' = req
            /\ wds[w].status # "pending" => wds'[w] = wds[w]]_vars

\* an approved and debited withdrawal was sent to processing again and rejected
C33_Witness ==
    \E w \in DOMAIN wds :
        /\ g.processRefused[w] /\ wds[w].status = "approved" /\ g.wdDebits[w] = 1
        /\ Busy("process") = {}

(* C34: for every task, however one owner delete interleaves with the reviews of
   the task's submissions, the refund credited to the buyer plus the rewards
   credited to workers for the task is at most the reward x quantity debited at
   creation: no slot is both paid to a worker and refunded to the buyer.  Stated
   for the tasks refunded by one delete and with no more payouts than slots *)
C34_SlotPaidOrRefunded ==
    \A t \in DOMAIN tasks :
        (g.refunds[t] = 1 /\ paidFor(t) <= tasks[t].quantity) =>
            g.refunded[t] + paidFor(t) * tasks[t].reward <= g.escrow[t]

(* C35: when two owner delete requests for one task run concurrently, the buyer is
   refunded (quantity - completedCount) x reward at most once in total *)
C35_RefundedOnce == \A t \in DOMAIN tasks : g.refunds[t] <= 1

(* C36: with no request in flight every pending submission is of a task that
   exists: a deletion of a task leaves no pending submission of it behind, also
   when a submit request for the task runs concurrently with the deletion *)
C36_PendingHasTask ==
    Quiescent =>
        \A s \in DOMAIN subs :
            (subs[s].live /\ subs[s].status = "pending") => tasks[subs[s].task].live

(* C37: a review request that is going to be refused as unauthorized (a buyer who
   does not own the task) does not affect the outcome of another request: a
   concurrent review of the same pending submission by the task's buyer or an
   admin succeeds as it would without it.  Without the unauthorized request the
   submission is pending and the review locks it; so no review of the task's buyer
   or an admin is answered "not found" for a submission that the unauthorized
   request holds *)
C37_UnauthorizedReviewHarmless == \A s \in DOMAIN subs : ~g.lockedOut[s]

\* C38: in the variant with reversal, for every withdrawal the refunds made never exceed
\* the debits made, and a withdrawal that is approved, with no request in flight, has
\* been debited and not refunded since
C38_RefundWithinDebit ==
    \A w \in DOMAIN wds :
        /\ g.wdRefunds[w] <= g.wdDebits[w]
        /\ (Quiescent /\ wds[w].status = "approved") => g.wdDebits[w] = g.wdRefunds[w] + 1

\* the rewardPaid of the approved submissions of task t that exist
approvedRewardPaid(t) ==
    LET S == {s \in DOMAIN subs : subs[s].live /\ subs[s].task = t
                                   /\ subs[s].status = "approved"}
    IN SumOver(S, [s \in S |-> subs[s].rewardPaid])

(* C39: in every state, for every existing task, reward times completedCount is the
   sum of rewardPaid over the existing approved submissions of the task, and every
   existing submission that is not approved has rewardPaid 0 *)
C39_CountMatchesRewardPaid ==
    /\ \A t \in DOMAIN tasks :
          tasks[t].live => tasks[t].reward * tasks[t].completedCount = approvedRewardPaid(t)
    /\ \A s \in DOMAIN subs :
          (subs[s].live /\ subs[s].status # "approved") => subs[s].rewardPaid = 0

\* a task with two approved submissions, each holding the reward
C39_Witness ==
    \E t \in DOMAIN tasks :
        /\ tasks[t].live /\ tasks[t].completedCount = 2 /\ Len(subs) = 2
        /\ approvedRewardPaid(t) = 2 * tasks[t].reward
        /\ \A s \in DOMAIN subs : /\ subs[s].live /\ subs[s].task = t
                                   /\ subs[s].status = "approved"
                                   /\ subs[s].rewardPaid = tasks[t].reward

====
